---- MODULE Spec2Model ----
(***************************************************************************)
(* rsum: sums space / newline delimited numbers taken from a command-line  *)
(* argument, a file or standard input (src/src/main.rs).                   *)
(*                                                                         *)
(* A Rust String is a sequence of one-character strings.  A literal piece  *)
(* of a message ("Missing path to file.") is one element of the sequence.  *)
(* An f32 produced by str::parse is the decimal it denotes, held as its     *)
(* integer part and its fraction in 10^-Scale units: the tokens of the     *)
(* model are short enough that distinct decimals are distinct f32s.        *)
(***************************************************************************)
EXTENDS Integers, Sequences, FiniteSets, TLC

VARIABLES args, pc, config, num_str, result, stdout, exit, log

vars == <<args, pc, config, num_str, result, stdout, exit, log>>

\* ---------------------------------------------------------------- bounds
MaxLen == 5
MaxArgs == 3

Scale == MaxLen

\* characters of the input texts
Digits == {"1"}
Whitespace == {" ", "\n", "\t"}
TextChars == Digits \cup Whitespace \cup {".", ",", "x"}

RECURSIVE SeqsUpTo(_, _)
SeqsUpTo(S, n) ==
    IF n = 0 THEN {<<>>}
    ELSE LET shorter == SeqsUpTo(S, n - 1)
         IN  shorter \cup {Append(s, c) : s \in {t \in shorter : Len(t) = n - 1}, c \in S}

Texts == SeqsUpTo(TextChars, MaxLen)

\* command-line arguments
ProgName == <<"r", "s", "u", "m">>
DashF == <<"-", "f">>
DashH == <<"-", "h">>
ArgVals == {DashF, DashH, <<"1">>, <<"1", " ", "1", ".">>, <<"1", ",", "1">>, <<"x">>, <<>>}
ArgLists == {<<>>} \cup {<<ProgName>> \o rest : rest \in SeqsUpTo(ArgVals, MaxArgs)}

\* what a read of a file can deliver
IoTexts == {<<>>, <<"1">>, <<"1", " ", "1", ".", "1">>, <<"1", "\n", "x">>,
            <<"1", ",", "1", " ", " ", "1">>, <<"x", " ", "1">>}
IoErrorMsg == <<"No such file or directory (os error 2)">>
FileReads == {[ok |-> TRUE, val |-> t] : t \in IoTexts}
                 \cup {[ok |-> FALSE, val |-> IoErrorMsg]}
\* what a read of standard input can deliver
Utf8ErrorMsg == <<"stream did not contain valid UTF-8">>
StdinReads == {[ok |-> TRUE, val |-> t] : t \in Texts}
                  \cup {[ok |-> FALSE, val |-> Utf8ErrorMsg]}

\* ---------------------------------------------------------------- values
HELP_MENU == <<"Sums up space and or newline delimited numbers">>

Stdin == [kind |-> "Stdin", arg |-> <<>>]
CliArg(input) == [kind |-> "CliArg", arg |-> input]
File(path) == [kind |-> "File", arg |-> path]
PrintHelp == [kind |-> "PrintHelp", arg |-> <<>>]
NoConfig == [kind |-> "None", arg |-> <<>>]

Ok(v) == [ok |-> TRUE, val |-> v]
Err(msg) == [ok |-> FALSE, val |-> msg]
NoResult == [ok |-> FALSE, val |-> <<"unset">>]

\* ------------------------------------------------------------ parse_args
RECURSIVE JoinArgsTrailing(_, _, _)
\* variant: the separator test is off by one, a space follows the last argument
JoinArgsTrailing(rest, i, args_len) ==
    IF rest = <<>> THEN <<>>
    ELSE Head(rest) \o (IF i < args_len THEN <<" ">> ELSE <<>>)
                    \o JoinArgsTrailing(Tail(rest), i + 1, args_len)

RECURSIVE JoinArgs(_, _, _)
\* the fold of lines 64-73: i is the 0-based index of enumerate()
JoinArgs(rest, i, args_len) ==
    IF rest = <<>> THEN <<>>
    ELSE Head(rest) \o (IF i < args_len - 1 THEN <<" ">> ELSE <<>>)
                    \o JoinArgs(Tail(rest), i + 1, args_len)

Skip1(a) == IF a = <<>> THEN <<>> ELSE Tail(a)

\* variant: the path is the last argument instead of the one after -f
parse_args_last_path(a) ==
    LET args_iter == Skip1(a)
        args_len == Len(args_iter)
    IN  IF args_iter # <<>>
        THEN LET first_arg == Head(args_iter)
                 after == Tail(args_iter)
             IN  IF first_arg = DashF
                 THEN IF after = <<>>
                      THEN Err(<<"Missing path to file.">>)
                      ELSE Ok(File(after[Len(after)]))
                 ELSE IF first_arg = DashH
                 THEN Ok(PrintHelp)
                 ELSE Ok(CliArg(JoinArgs(Skip1(a), 0, args_len)))
        ELSE Ok(Stdin)

\* variant: -h asks for help only when it is the sole argument
parse_args_lone_help(a) ==
    LET args_iter == Skip1(a)
        args_len == Len(args_iter)
    IN  IF args_iter # <<>>
        THEN LET first_arg == Head(args_iter)
                 after == Tail(args_iter)
             IN  IF first_arg = DashF
                 THEN IF after = <<>>
                      THEN Err(<<"Missing path to file.">>)
                      ELSE Ok(File(Head(after)))
                 ELSE IF first_arg = DashH /\ after = <<>>
                 THEN Ok(PrintHelp)
                 ELSE Ok(CliArg(JoinArgs(Skip1(a), 0, args_len)))
        ELSE Ok(Stdin)

parse_args(a) ==
    LET args_iter == Skip1(a)
        args_len == Len(args_iter)
    IN  IF args_iter # <<>>
        THEN LET first_arg == Head(args_iter)
                 after == Tail(args_iter)
             IN  IF first_arg = DashF
                 THEN IF after = <<>>
                      THEN Err(<<"Missing path to file.">>)
                      ELSE Ok(File(Head(after)))
                 ELSE IF first_arg = DashH
                 THEN Ok(PrintHelp)
                 ELSE Ok(CliArg(JoinArgs(Skip1(a), 0, args_len)))
        ELSE Ok(Stdin)

\* --------------------------------------------------------- parse_num_str
StripCommas(s) == SelectSeq(s, LAMBDA c : c # ",")

RECURSIVE TrimStart(_)
TrimStart(s) ==
    IF s # <<>> /\ Head(s) \in Whitespace THEN TrimStart(Tail(s)) ELSE s

RECURSIVE TrimEnd(_)
TrimEnd(s) ==
    IF s # <<>> /\ s[Len(s)] \in Whitespace
    THEN TrimEnd(SubSeq(s, 1, Len(s) - 1)) ELSE s

Trim(s) == TrimEnd(TrimStart(s))

RECURSIVE Split(_, _)
\* str::split(d): n occurrences of d give n + 1 pieces, empty ones included
Split(s, d) ==
    IF \A i \in 1..Len(s) : s[i] # d THEN <<s>>
    ELSE LET i == CHOOSE k \in 1..Len(s) :
                      s[k] = d /\ \A j \in 1..(k - 1) : s[j] # d
         IN  <<SubSeq(s, 1, i - 1)>> \o Split(SubSeq(s, i + 1, Len(s)), d)

RECURSIVE Flatten(_)
Flatten(ss) == IF ss = <<>> THEN <<>> ELSE Head(ss) \o Flatten(Tail(ss))

\* variant: trims before the commas are removed
TokensTrimFirst(s) ==
    LET lines == Split(StripCommas(Trim(s)), "\n")
    IN  Flatten([i \in 1..Len(lines) |-> Split(lines[i], " ")])

\* variant: no split on newlines
TokensSpaceOnly(s) == Split(Trim(StripCommas(s)), " ")

\* variant: runs of delimiters are collapsed, empty tokens dropped
TokensCollapsed(s) ==
    LET lines == Split(Trim(StripCommas(s)), "\n")
    IN  SelectSeq(Flatten([i \in 1..Len(lines) |-> Split(lines[i], " ")]),
                  LAMBDA t : t # <<>>)

\* lines 84-90: the flat token sequence
Tokens(s) ==
    LET stripped == StripCommas(s)
        lines == Split(Trim(stripped), "\n")
    IN  Flatten([i \in 1..Len(lines) |-> Split(lines[i], " ")])

RECURSIVE Pow10(_)
Pow10(n) == IF n = 0 THEN 1 ELSE 10 * Pow10(n - 1)

DigitVal(c) == IF c = "1" THEN 1 ELSE 0

RECURSIVE DigitsVal(_)
DigitsVal(ds) ==
    IF ds = <<>> THEN 0
    ELSE 10 * DigitsVal(SubSeq(ds, 1, Len(ds) - 1)) + DigitVal(ds[Len(ds)])

\* an f32 value: integer part and fraction in units of 10^-Scale
F32(i, f) == [int |-> i, frac |-> f]

AddF32(a, b) ==
    LET f == a.frac + b.frac
    IN  F32(a.int + b.int + f \div Pow10(Scale), f % Pow10(Scale))

\* <f32 as FromStr>::from_str over the model's characters: digits with at
\* most one '.', at least one digit ("1", "1.", ".1", "1.1"); anything else,
\* the empty string included, is an error.
ParseF32(tok) ==
    LET dots == {i \in 1..Len(tok) : tok[i] = "."}
        wellFormed == /\ \A i \in 1..Len(tok) : tok[i] \in Digits \cup {"."}
                      /\ Cardinality(dots) <= 1
                      /\ \E i \in 1..Len(tok) : tok[i] \in Digits
        dot == IF dots = {} THEN Len(tok) + 1 ELSE CHOOSE i \in dots : TRUE
        intDigits == SubSeq(tok, 1, dot - 1)
        fracDigits == SubSeq(tok, dot + 1, Len(tok))
    IN  IF wellFormed
        THEN Ok(F32(DigitsVal(intDigits),
                    DigitsVal(fracDigits) * Pow10(Scale - Len(fracDigits))))
        ELSE Err(<<>>)

FailedToParse(tok) == <<"Failed to parse '">> \o tok \o <<"'">>

\* variant: the last Err decides the message
LastFailure(parse_results, toks) ==
    LET bad == {i \in 1..Len(toks) : ~parse_results[i].ok}
    IN  toks[CHOOSE i \in bad : \A j \in bad : i >= j]

\* lines 94-98: the first Err in zip order decides the message
FirstFailure(parse_results, toks) ==
    LET bad == {i \in 1..Len(toks) : ~parse_results[i].ok}
    IN  toks[CHOOSE i \in bad : \A j \in bad : i <= j]

\* variant: tokens that fail to parse are skipped
parse_num_str_lenient(s) ==
    LET toks == SelectSeq(Tokens(s), LAMBDA t : ParseF32(t).ok)
    IN  Ok([i \in 1..Len(toks) |-> ParseF32(toks[i]).val])

\* variant: an empty token counts as zero
parse_num_str_empty_zero(s) ==
    LET toks == Tokens(s)
        parse_results == [i \in 1..Len(toks) |->
                             IF toks[i] = <<>> THEN Ok(F32(0, 0)) ELSE ParseF32(toks[i])]
    IN  IF \E i \in 1..Len(toks) : ~parse_results[i].ok
        THEN Err(FailedToParse(FirstFailure(parse_results, toks)))
        ELSE Ok([i \in 1..Len(toks) |-> parse_results[i].val])

parse_num_str(s) ==
    LET toks == Tokens(s)
        parse_results == [i \in 1..Len(toks) |-> ParseF32(toks[i])]
    IN  IF \E i \in 1..Len(toks) : ~parse_results[i].ok
        THEN Err(FailedToParse(FirstFailure(parse_results, toks)))
        ELSE Ok([i \in 1..Len(toks) |-> parse_results[i].val])

RECURSIVE SumF32(_)
\* iter().sum::<f32>(): left to right from 0
SumF32(nums) ==
    IF nums = <<>> THEN F32(0, 0)
    ELSE AddF32(SumF32(SubSeq(nums, 1, Len(nums) - 1)), nums[Len(nums)])

\* ------------------------------------------------------------------ main
Running == [kind |-> "Running", code |-> 0, msg |-> <<>>]
ExitOk == [kind |-> "Ok", code |-> 0, msg |-> <<>>]
ExitErr(m) == [kind |-> "Err", code |-> 1, msg |-> m]
ExitPanic(m) == [kind |-> "Panic", code |-> 101, msg |-> m]
ExitCall(c) == [kind |-> "Exit", code |-> c, msg |-> <<>>]

SumLine(v) == [kind |-> "sum", val |-> v, text |-> <<>>]
TextLine(t) == [kind |-> "text", val |-> F32(0, 0), text |-> t]

Init ==
    /\ args \in ArgLists
    /\ pc = "start"
    /\ config = NoConfig
    /\ num_str = <<>>
    /\ result = NoResult
    /\ stdout = <<>>
    /\ exit = Running
    /\ log = <<>>

\* line 23
ResolveArgs ==
    /\ pc = "start"
    /\ LET r == parse_args(args)
       IN  IF r.ok
           THEN /\ config' = r.val
                /\ pc' = "acquire"
                /\ exit' = exit
           ELSE /\ config' = config
                /\ pc' = "done"
                /\ exit' = ExitErr(r.val)
    /\ log' = Append(log, "parse_args")
    /\ UNCHANGED <<args, num_str, result, stdout>>

\* lines 26-30
AcquireStdin ==
    /\ pc = "acquire"
    /\ config.kind = "Stdin"
    /\ \E r \in StdinReads :
          IF r.ok
          THEN /\ num_str' = r.val
               /\ pc' = "parse"
               /\ exit' = exit
               /\ log' = Append(log, "read_stdin")
          ELSE /\ num_str' = num_str
               /\ pc' = "done"
               /\ exit' = ExitPanic(r.val)
               /\ log' = Append(log, "read_stdin_failed")
    /\ UNCHANGED <<args, config, result, stdout>>

\* line 31
AcquireCliArg ==
    /\ pc = "acquire"
    /\ config.kind = "CliArg"
    /\ num_str' = config.arg
    /\ pc' = "parse"
    /\ UNCHANGED <<args, config, result, stdout, exit, log>>

\* line 32
AcquireFile ==
    /\ pc = "acquire"
    /\ config.kind = "File"
    /\ \E r \in FileReads :
          IF r.ok
          THEN /\ num_str' = r.val
               /\ pc' = "parse"
               /\ exit' = exit
               /\ log' = Append(log, "read_file")
          ELSE /\ num_str' = num_str
               /\ pc' = "done"
               /\ exit' = ExitErr(r.val)
               /\ log' = Append(log, "read_file_failed")
    /\ UNCHANGED <<args, config, result, stdout>>

\* lines 33-36 and 103-105
PrintHelpAndExit ==
    /\ pc = "acquire"
    /\ config.kind = "PrintHelp"
    /\ stdout' = Append(stdout, TextLine(HELP_MENU))
    /\ exit' = ExitCall(0)
    /\ pc' = "done"
    /\ log' = Append(log, "print_help")
    /\ UNCHANGED <<args, config, num_str, result>>

\* line 39
ParseNumStr ==
    /\ pc = "parse"
    /\ result' = parse_num_str(num_str)
    /\ IF result'.ok
       THEN /\ pc' = "print"
            /\ exit' = exit
       ELSE /\ pc' = "done"
            /\ exit' = ExitErr(result'.val)
    /\ log' = Append(log, "parse_num_str")
    /\ UNCHANGED <<args, config, num_str, stdout>>

\* lines 39-43
PrintSum ==
    /\ pc = "print"
    /\ stdout' = Append(stdout, SumLine(SumF32(result.val)))
    /\ exit' = ExitOk
    /\ pc' = "done"
    /\ log' = Append(log, "println_sum")
    /\ UNCHANGED <<args, config, num_str, result>>

Next ==
    \/ ResolveArgs
    \/ AcquireStdin
    \/ AcquireCliArg
    \/ AcquireFile
    \/ PrintHelpAndExit
    \/ ParseNumStr
    \/ PrintSum

Spec == Init /\ [][Next]_vars


\* ------------------------------------------------------------ properties
InLog(op) == \E i \in 1..Len(log) : log[i] = op
HasSum == \E i \in 1..Len(stdout) : stdout[i].kind = "sum"
Parsed == InLog("parse_num_str")
Failed == exit.kind \in {"Err", "Panic"}
RestArgs == Skip1(args)
FirstArgIs(a) == RestArgs # <<>> /\ Head(RestArgs) = a

RECURSIVE WithoutCommas(_)
WithoutCommas(t) ==
    IF t = <<>> THEN <<>>
    ELSE IF Head(t) = "," THEN WithoutCommas(Tail(t))
    ELSE <<Head(t)>> \o WithoutCommas(Tail(t))

\* the tokens of the text the run acquired, and which of them are numbers
Toks == Tokens(num_str)
IsNumber(tok) == ParseF32(tok).ok
BadToks == {i \in 1..Len(Toks) : ~IsNumber(Toks[i])}

\* C1: the sum reaches standard output only after argument resolution, text
\* acquisition and the parse of every token succeeded; a run that fails in
\* parse_args, in the file read or on any token prints nothing.
C1_NoPartialOutput ==
    /\ HasSum =>
          /\ log[1] = "parse_args"
          /\ config.kind \in {"Stdin", "CliArg", "File"}
          /\ config.kind = "Stdin" => InLog("read_stdin")
          /\ config.kind = "File" => InLog("read_file")
          /\ config.kind = "CliArg" => num_str = config.arg
          /\ Parsed
          /\ BadToks = {}
          /\ stdout = <<SumLine(SumF32([i \in 1..Len(Toks) |-> ParseF32(Toks[i]).val]))>>
          /\ exit = ExitOk
    /\ Failed => stdout = <<>>
    /\ pc = "done" /\ (RestArgs = <<DashF>> \/ InLog("read_file_failed")
                          \/ (Parsed /\ BadToks # {}))
          => Failed /\ stdout = <<>>

\* C1 witness: the last token of the text fails after valid ones, the run is over
C1_Witness ==
    /\ pc = "done"
    /\ Parsed
    /\ Len(Toks) >= 2
    /\ BadToks = {Len(Toks)}
    /\ stdout = <<>>

\* C2: when a token fails to parse, parse_num_str returns the error
\* Failed to parse '<token>' for the earliest failing token.
C2_FirstFailingToken ==
    Parsed /\ BadToks # {} =>
       /\ ~result.ok
       /\ \E i \in BadToks :
             /\ \A j \in BadToks : i <= j
             /\ result.val = <<"Failed to parse '">> \o Toks[i] \o <<"'">>

\* C2 witness: two different tokens fail
C2_Witness ==
    /\ Parsed
    /\ \E i, j \in BadToks : i < j /\ Toks[i] # Toks[j]

\* C3: parse_num_str gives the same result on a text and on the text with
\* every comma deleted; no token holds a comma and deleting the commas first
\* leaves the number of tokens unchanged.
C3_CommaInsensitive ==
    Parsed =>
       /\ result = parse_num_str(WithoutCommas(num_str))
       /\ Len(Toks) = Len(Tokens(WithoutCommas(num_str)))
       /\ \A i \in 1..Len(Toks) : \A k \in 1..Len(Toks[i]) : Toks[i][k] # ","

\* C3 witness: commas at the edge of and inside the text, and a successful parse
C3_Witness ==
    /\ Parsed
    /\ result.ok
    /\ Len(num_str) >= 3
    /\ num_str[1] = ","
    /\ \E k \in 3..Len(num_str) : num_str[k] = ","

\* non-empty tokens, any two neighbours separated by one space or one newline
Delims == {" ", "\n"}
WellSeparated(t) ==
    /\ t # <<>>
    /\ t[1] \notin Delims
    /\ t[Len(t)] \notin Delims
    /\ \A k \in 1..(Len(t) - 1) : ~(t[k] \in Delims /\ t[k + 1] \in Delims)
AllSpaces(t) == [k \in 1..Len(t) |-> IF t[k] = "\n" THEN " " ELSE t[k]]

\* C4: in a text of non-empty tokens separated by single spaces, turning any
\* of the separating spaces into newlines leaves the result of parse_num_str
\* (the numbers and their order) unchanged.
C4_DelimiterInsensitive ==
    Parsed /\ WellSeparated(num_str) =>
       /\ result = parse_num_str(AllSpaces(num_str))
       /\ result.ok => SumF32(result.val) = SumF32(parse_num_str(AllSpaces(num_str)).val)

\* C4 witness: a space and a newline separate three numbers
C4_Witness ==
    /\ Parsed
    /\ WellSeparated(num_str)
    /\ result.ok
    /\ \E k \in 1..Len(num_str) : num_str[k] = " "
    /\ \E k \in 1..Len(num_str) : num_str[k] = "\n"
    /\ Len(result.val) = 3

RECURSIVE SumLens(_)
SumLens(ss) == IF ss = <<>> THEN 0 ELSE Len(Head(ss)) + SumLens(Tail(ss))

RECURSIVE ExpectedJoin(_)
ExpectedJoin(rest) ==
    IF Len(rest) = 1 THEN rest[1]
    ELSE rest[1] \o <<" ">> \o ExpectedJoin(Tail(rest))

\* C5: a first argument other than -f and -h makes parse_args return
\* CliArg of all the arguments after the program name, in order, with one
\* space between neighbours and none at either end.
C5_LiteralJoin ==
    pc # "start" /\ RestArgs # <<>> /\ Head(RestArgs) \notin {DashF, DashH} =>
       /\ config = CliArg(ExpectedJoin(RestArgs))
       /\ Len(RestArgs) = 1 => config.arg = RestArgs[1]
       /\ Len(config.arg) = SumLens(RestArgs) + Len(RestArgs) - 1

\* C5 witness: three arguments, a flag among the later ones
C5_Witness ==
    /\ pc = "acquire"
    /\ config.kind = "CliArg"
    /\ Len(RestArgs) = 3
    /\ RestArgs[2] = DashF
    /\ RestArgs[3] # <<>>

\* C6: after -f, parse_args returns File of the next argument and ignores
\* the rest; -f alone fails with 'Missing path to file.', and nothing else
\* is rejected.
C6_FileMode ==
    pc # "start" =>
       /\ FirstArgIs(DashF) /\ Len(RestArgs) >= 2 => config = File(RestArgs[2])
       /\ RestArgs = <<DashF>> =>
             /\ exit = ExitErr(<<"Missing path to file.">>)
             /\ config = NoConfig
       /\ RestArgs # <<DashF>> =>
             /\ config.kind \in {"Stdin", "CliArg", "File", "PrintHelp"}
             /\ log[1] = "parse_args"
             /\ Len(log) = 1 => exit = Running

\* C6 witness: -f, a path and a further argument
C6_Witness ==
    /\ pc = "acquire"
    /\ FirstArgIs(DashF)
    /\ Len(RestArgs) = 3
    /\ config.kind = "File"
    /\ RestArgs[3] # RestArgs[2]

HelpDone == pc = "done" /\ exit = ExitCall(0) /\ stdout = <<TextLine(HELP_MENU)>>

\* C7: with -h as first argument, whatever follows, the run resolves to the
\* help mode, prints the help text and exits with status 0 as its only
\* possible continuation; it reads neither standard input nor a file, never
\* runs the parser and prints no sum.
C7_Help ==
    FirstArgIs(DashH) =>
       /\ pc \in {"start", "acquire", "done"}
       /\ pc # "start" => config = PrintHelp
       /\ pc = "acquire" =>
             /\ ENABLED PrintHelpAndExit
             /\ ~ENABLED (AcquireStdin \/ AcquireCliArg \/ AcquireFile)
             /\ stdout = <<>>
       /\ \A i \in 1..Len(log) : log[i] \in {"parse_args", "print_help"}
       /\ num_str = <<>> /\ result = NoResult
       /\ ~HasSum
       /\ pc = "done" => HelpDone

\* C7 witness: -h followed by further arguments, help printed
C7_Witness ==
    /\ FirstArgIs(DashH)
    /\ Len(RestArgs) = 3
    /\ RestArgs[2] = DashF
    /\ HelpDone

\* C8: a failed read of standard input ends the run with an error value
\* returned to the top level, as a failed file read does; no sum is printed.
C8_StdinReadError ==
    InLog("read_stdin_failed") =>
       /\ exit.kind = "Err"
       /\ exit.msg # <<>>
       /\ ~HasSum

HasDoubleSpace(t) == \E k \in 1..(Len(t) - 1) : t[k] = " " /\ t[k + 1] = " "
Prepared == Trim(WithoutCommas(num_str))
EmptyToks == {i \in 1..Len(Toks) : Toks[i] = <<>>}
TabBetweenNumbers ==
    \E k \in 2..(Len(num_str) - 1) :
       /\ num_str[k] = "\t"
       /\ IsNumber(SubSeq(num_str, 1, k - 1))
       /\ IsNumber(SubSeq(num_str, k + 1, Len(num_str)))

\* C9 as stated: two consecutive spaces left after comma removal and
\* trimming always give the error Failed to parse ''.
C9_Original ==
    Parsed /\ HasDoubleSpace(Prepared) => result = Err(<<"Failed to parse '", "'">>)

\* C9: two consecutive spaces left after comma removal and trimming yield an
\* empty token and parse_num_str fails, with Failed to parse '' unless an
\* invalid token precedes the first empty one; a tab between two numbers is
\* no delimiter and the parse fails on the token that holds it.
C9_SpaceRunsNotCollapsed ==
    /\ Parsed /\ HasDoubleSpace(Prepared) =>
          /\ EmptyToks # {}
          /\ ~result.ok
          /\ (\A i \in BadToks : \E e \in EmptyToks : e <= i)
                => result = Err(<<"Failed to parse '", "'">>)
          /\ (\A i \in 1..Len(Toks) : Toks[i] # <<>> => IsNumber(Toks[i]))
                => result = Err(<<"Failed to parse '", "'">>)
    /\ Parsed /\ TabBetweenNumbers =>
          /\ Toks = <<num_str>>
          /\ result = Err(<<"Failed to parse '">> \o num_str \o <<"'">>)

\* C9 witness: valid numbers around a run of two spaces
C9_Witness ==
    /\ Parsed
    /\ HasDoubleSpace(Prepared)
    /\ Len(Toks) = 3
    /\ IsNumber(Toks[1]) /\ Toks[2] = <<>> /\ IsNumber(Toks[3])

OnlyBlank(t) == \A k \in 1..Len(t) : t[k] \in Whitespace \cup {","}

\* C10: parse_num_str never succeeds with an empty sequence: a text of
\* nothing but whitespace and commas is the single empty token and gives
\* Failed to parse '', so the run fails without printing; a successful
\* result holds one number per token, in token order, and at least one.
C10_NeverEmpty ==
    Parsed =>
       /\ OnlyBlank(num_str) =>
             /\ Toks = << <<>> >>
             /\ result = Err(<<"Failed to parse '", "'">>)
             /\ pc = "done" /\ exit = ExitErr(result.val) /\ stdout = <<>>
       /\ result.ok =>
             /\ Len(result.val) >= 1
             /\ Len(result.val) = Len(Toks)
             /\ \A i \in 1..Len(Toks) : Ok(result.val[i]) = ParseF32(Toks[i])

\* C10 witness: the empty text was parsed
C10_Witness ==
    /\ Parsed
    /\ num_str = <<>>
    /\ pc = "done"

\* C10 second case: a blank text with commas and whitespace
C10_BlankWitness ==
    /\ Parsed
    /\ Len(num_str) >= 3
    /\ OnlyBlank(num_str)

====
